---- MODULE Spec2Model ----
(***************************************************************************)
(* Model of fm301_cc.py: the FM 301 (CfRadial) NetCDF compliance checker.  *)
(* validate() opens the data file, runs the four check strategies over a   *)
(* JSON schema (metadata), closes the file and hands the rows to the       *)
(* report.  Names are modelled as sequences of one-character strings so    *)
(* that str.replace / str.split / str.startswith / "in" act on characters  *)
(* as in Python.                                                           *)
(***************************************************************************)
EXTENDS Integers, Sequences, FiniteSets, TLC

VARIABLES metadata, nc, Sopt, pc, results, results_data, section_summaries,
          sweep_i, close_count, err, calls

vars == <<metadata, nc, Sopt, pc, results, results_data, section_summaries,
          sweep_i, close_count, err, calls>>

(***************************************************************************)
(* Bounds                                                                  *)
(***************************************************************************)
\* largest number of sweep groups a modelled file holds
MaxSweeps == 2

(***************************************************************************)
(* Python string primitives on character sequences                         *)
(***************************************************************************)
None == "None"

\* s[a:b] with 1-based inclusive bounds, empty when a > b
Slice(s, a, b) == [k \in 1..(b - a + 1) |-> s[a + k - 1]]

\* s.startswith(p)
StartsWith(s, p) == Len(s) >= Len(p) /\ Slice(s, 1, Len(p)) = p

\* True when sub occurs in s at position k
OccursAt(s, sub, k) == k + Len(sub) - 1 <= Len(s) /\ Slice(s, k, k + Len(sub) - 1) = sub

\* sub in s
Contains(s, sub) == \E k \in 1..(Len(s) + 1) : OccursAt(s, sub, k)

RECURSIVE ReplaceFrom(_, _, _, _)
ReplaceFrom(s, old, new, k) ==
    IF k > Len(s) THEN <<>>
    ELSE IF OccursAt(s, old, k) THEN new \o ReplaceFrom(s, old, new, k + Len(old))
    ELSE <<s[k]>> \o ReplaceFrom(s, old, new, k + 1)

\* s.replace(old, new): every non-overlapping occurrence, left to right (old non-empty)
Replace(s, old, new) == ReplaceFrom(s, old, new, 1)

RECURSIVE SplitFrom(_, _, _, _)
SplitFrom(s, sep, k, cur) ==
    IF k > Len(s) THEN <<cur>>
    ELSE IF s[k] = sep THEN <<cur>> \o SplitFrom(s, sep, k + 1, <<>>)
    ELSE SplitFrom(s, sep, k + 1, Append(cur, s[k]))

\* s.split(sep) for a one-character separator
Split(s, sep) == SplitFrom(s, sep, 1, <<>>)

Digits == <<"0", "1", "2", "3", "4", "5", "6", "7", "8", "9">>

RECURSIVE Str(_)
\* str(n) for a natural number
Str(n) == IF n < 10 THEN <<Digits[n + 1]>> ELSE Str(n \div 10) \o <<Digits[(n % 10) + 1]>>

\* characters in code-point order (the part of ASCII the names use)
Alphabet == <<"/", "0", "1", "2", "3", "4", "5", "6", "7", "8", "9", "<", ">", "_",
              "a", "b", "c", "d", "e", "f", "g", "h", "i", "j", "k", "l", "m",
              "n", "o", "p", "q", "r", "s", "t", "u", "v", "w", "x", "y", "z">>

Ord(c) == CHOOSE k \in 1..Len(Alphabet) : Alphabet[k] = c

RECURSIVE StrLess(_, _)
\* a < b for Python strings (lexicographic by code point)
StrLess(a, b) ==
    IF b = <<>> THEN FALSE
    ELSE IF a = <<>> THEN TRUE
    ELSE IF a[1] = b[1] THEN StrLess(Tail(a), Tail(b))
    ELSE Ord(a[1]) < Ord(b[1])

RECURSIVE Sorted(_)
\* sorted(S) for a finite set of strings
Sorted(S) ==
    IF S = {} THEN <<>>
    ELSE LET m == CHOOSE x \in S : \A y \in S \ {x} : StrLess(x, y)
         IN <<m>> \o Sorted(S \ {m})

\* requirement.lower()
Lower(req) ==
    CASE req \in {"Mandatory", "MANDATORY", "mandatory"} -> "mandatory"
      [] req \in {"Optional", "OPTIONAL", "optional"} -> "optional"
      [] OTHER -> req

(***************************************************************************)
(* Schema and data-file access                                             *)
(***************************************************************************)
\* type_map.get(t, str): the runtime type a schema type name stands for
type_map(t) ==
    CASE t = "string" -> "str"
      [] t = "int" -> "int32"
      [] t = "double" -> "float64"
      [] t = "float" -> "float32"
      [] t = "uint8" -> "uint8"
      [] OTHER -> "str"

\* metadata.get(group_name, [])
Section(md, group_name) == IF group_name \in DOMAIN md.sections THEN md.sections[group_name] ELSE <<>>

NoValue == [some |-> FALSE, vals |-> {}]

\* metadata.get("allowed_values", {}).get(key): None, or the list of allowed literals
AllowedValues(md, key) == IF key \in DOMAIN md.allowed_values THEN [some |-> TRUE, vals |-> md.allowed_values[key]] ELSE NoValue

\* truth value of an expected-value list: None and the empty list are falsy
Truthy(ev) == ev.some /\ ev.vals # {}

NoPattern == [kind |-> "none", lits |-> {}, rx |-> {}]

\* attr.get("attribute_value"), falling back to allowed_values.get(aname).
\* A pattern is held by the set of actual values v with str(v) in expected_value
\* (lits) and the set of actual values re.match accepts (rx).  For a list taken
\* from allowed_values, "in" is list membership and str(list) read as a regular
\* expression is a character class; no modelled value starts with one of its
\* characters, so rx is empty.
AttrExpected(md, attr) ==
    IF attr.attribute_value.kind # "none" THEN attr.attribute_value
    ELSE IF attr.attribute_name \in DOMAIN md.allowed_values
         THEN [kind |-> "list", lits |-> md.allowed_values[attr.attribute_name], rx |-> {}]
         ELSE NoPattern

(***************************************************************************)
(* Result rows and tallies                                                 *)
(***************************************************************************)
\* One row of results.  group/parent give the first column (group_name, or
\* group_name:parent for a sub-attribute row); kind, item and sweep are
\* history fields: row of the item itself or of a sub-attribute, position of
\* the schema item in its section, sweep_index of the call (-1 for None).
Row(group, parent, name, available, expected_dtype, actual_dtype, expected_value, actual_value, requirement, status, kind, item, sweep) ==
    [group |-> group, parent |-> parent, name |-> name, available |-> available,
     expected_dtype |-> expected_dtype, actual_dtype |-> actual_dtype,
     expected_value |-> expected_value, actual_value |-> actual_value,
     requirement |-> requirement, status |-> status,
     kind |-> kind, item |-> item, sweep |-> sweep]

Acc0 == [rows |-> <<>>, pass_count |-> 0, fail_mandatory_count |-> 0, not_used_count |-> 0, err |-> "none"]

\* Tally with the third counter also fed by not_used rows
Tally_CountsNotUsed(acc, status, row) ==
    [acc EXCEPT !.rows = Append(@, row),
                !.pass_count = IF status = "pass" THEN @ + 1 ELSE @,
                !.fail_mandatory_count = IF status = "fail_mandatory" THEN @ + 1 ELSE @,
                !.not_used_count = IF status \in {"fail_optional", "not_used"} THEN @ + 1 ELSE @]

\* the if/elif chain that updates the three counters, then results.append(row)
Tally(acc, status, row) ==
    [acc EXCEPT !.rows = Append(@, row),
                !.pass_count = IF status = "pass" THEN @ + 1 ELSE @,
                !.fail_mandatory_count = IF status = "fail_mandatory" THEN @ + 1 ELSE @,
                !.not_used_count = IF status = "fail_optional" THEN @ + 1 ELSE @]

Raise(acc, e) == [acc EXCEPT !.err = e]

\* ItemStatus with a type mismatch reported as fail_mandatory whatever the applicability
ItemStatus_TypeAlwaysMandatory(available, requirement, type_ok, expected_value, value) ==
    IF ~available /\ Lower(requirement) = "mandatory" THEN "fail_mandatory"
    ELSE IF ~available THEN "not_used"
    ELSE IF ~type_ok THEN "fail_mandatory"
    ELSE IF Truthy(expected_value) /\ value \notin expected_value.vals
         THEN (IF Lower(requirement) = "mandatory" THEN "fail_mandatory" ELSE "fail_optional")
    ELSE "pass"

\* ItemStatus comparing the applicability without lower()
ItemStatus_NoLower(available, requirement, type_ok, expected_value, value) ==
    IF ~available /\ requirement = "mandatory" THEN "fail_mandatory"
    ELSE IF ~available THEN "not_used"
    ELSE IF ~type_ok
         THEN (IF requirement = "mandatory" THEN "fail_mandatory" ELSE "fail_optional")
    ELSE IF Truthy(expected_value) /\ value \notin expected_value.vals
         THEN (IF requirement = "mandatory" THEN "fail_mandatory" ELSE "fail_optional")
    ELSE "pass"

\* status of an item row: global attributes, flat variables, group variables
ItemStatus(available, requirement, type_ok, expected_value, value) ==
    IF ~available /\ Lower(requirement) = "mandatory" THEN "fail_mandatory"
    ELSE IF ~available THEN "not_used"
    ELSE IF ~type_ok
         THEN (IF Lower(requirement) = "mandatory" THEN "fail_mandatory" ELSE "fail_optional")
    ELSE IF Truthy(expected_value) /\ value \notin expected_value.vals
         THEN (IF Lower(requirement) = "mandatory" THEN "fail_mandatory" ELSE "fail_optional")
    ELSE "pass"

\* AttrStatus with a missing sub-attribute reported as not_used whatever the requirement
AttrStatus_AbsentNotUsed(a_available, requirement, type_ok, expected_value, aval) ==
    IF ~a_available THEN "not_used"
    ELSE IF ~type_ok
         THEN (IF Lower(requirement) = "mandatory" THEN "fail_mandatory" ELSE "fail_optional")
    ELSE IF expected_value.kind # "none" /\ aval \notin expected_value.lits /\ aval \notin expected_value.rx
         THEN (IF Lower(requirement) = "mandatory" THEN "fail_mandatory" ELSE "fail_optional")
    ELSE "pass"

\* status of a sub-attribute row in check_variables and check_variables_group
AttrStatus(a_available, requirement, type_ok, expected_value, aval) ==
    IF ~a_available /\ Lower(requirement) = "mandatory" THEN "fail_mandatory"
    ELSE IF ~a_available THEN "not_used"
    ELSE IF ~type_ok
         THEN (IF Lower(requirement) = "mandatory" THEN "fail_mandatory" ELSE "fail_optional")
    ELSE IF expected_value.kind # "none" /\ aval \notin expected_value.lits /\ aval \notin expected_value.rx
         THEN (IF Lower(requirement) = "mandatory" THEN "fail_mandatory" ELSE "fail_optional")
    ELSE "pass"

\* status of a sub-attribute row in check_dataset_group
DatasetAttrStatus(a_available, rbs, type_ok, expected_value, aval) ==
    IF ~a_available /\ Lower(rbs) = "mandatory" THEN "fail_mandatory"
    ELSE IF ~a_available THEN "not_used"
    ELSE IF ~type_ok
         THEN (IF Lower(rbs) = "mandatory" THEN "fail_mandatory" ELSE "not_used")
    ELSE IF expected_value.kind # "none" /\ aval \notin expected_value.lits /\ aval \notin expected_value.rx
         THEN (IF Lower(rbs) = "mandatory" THEN "fail_mandatory" ELSE "not_used")
    ELSE "pass"

\* DatasetStatus without the "if not available" branch
DatasetStatus_AlwaysPass(available) == "pass"

\* status of the variable's own row in check_dataset_group
DatasetStatus(available) == IF ~available THEN "not_used" ELSE "pass"

(***************************************************************************)
(* The four check strategies.  Each returns the rows it appended, its      *)
(* three counters and the exception that ended it ("none" when it          *)
(* returned normally).                                                     *)
(***************************************************************************)
RECURSIVE GlobalAttributesFrom(_, _, _, _)
GlobalAttributesFrom(scope, md, k, acc) ==
    LET items == Section(md, "Global_Attributes") IN
    IF k > Len(items) THEN acc
    ELSE LET attr == items[k]
             name == attr.name
             dtype == type_map(attr.type)
             requirement == attr.applicability
             available == name \in DOMAIN scope.attrs
             actual_dtype == IF available THEN scope.attrs[name].type ELSE None
             value == IF available THEN scope.attrs[name].value ELSE None
             expected_value == AllowedValues(md, name)
             status == ItemStatus(available, requirement, actual_dtype = dtype, expected_value, value)
             row == Row("Global_Attributes", <<>>, name, available, attr.type, actual_dtype,
                        expected_value, value, requirement, status, "item", k, -1)
         IN GlobalAttributesFrom(scope, md, k + 1, Tally(acc, status, row))

check_global_attributes(scope, md) == GlobalAttributesFrom(scope, md, 1, Acc0)

RECURSIVE VariableAttrsFrom(_, _, _, _, _, _, _, _, _, _, _)
\* the "Check attributes of variable" loop shared by check_variables (strict = TRUE:
\* re.match is given expected_value itself) and check_variables_group (re.match is
\* given str(expected_value))
VariableAttrsFrom(md, group_name, name, var, available, ncvar, requirement, item, sweep, strict, st) ==
    LET k == st.k
        acc == st.acc
    IN
    IF k > Len(var.attributes) \/ acc.err # "none" THEN acc
    ELSE LET attr == var.attributes[k]
             aname == attr.attribute_name
             adtype == type_map(attr.attribute_datatype)
             expected_value == AttrExpected(md, attr)
             a_available == IF available THEN aname \in DOMAIN ncvar.attrs ELSE FALSE
             aval == IF a_available THEN ncvar.attrs[aname].value ELSE None
             actual_dtype == IF a_available THEN ncvar.attrs[aname].type ELSE None
             type_ok == actual_dtype = adtype
             astatus == AttrStatus(a_available, requirement, type_ok, expected_value, aval)
             row == Row(group_name, name, aname, a_available, attr.attribute_datatype, actual_dtype,
                        expected_value, aval, requirement, astatus, "attr", item, sweep)
             \* re.match(expected_value, ...) with a list raises TypeError
             type_error == strict /\ a_available /\ type_ok /\ expected_value.kind = "list"
                           /\ aval \notin expected_value.lits
         IN VariableAttrsFrom(md, group_name, name, var, available, ncvar, requirement, item, sweep, strict,
                              [k |-> k + 1,
                               acc |-> IF type_error THEN Raise(acc, "TypeError") ELSE Tally(acc, astatus, row)])

NoVar == [dtype |-> None, shape |-> "scalar", value |-> None, attrs |-> <<>>]

RECURSIVE VariablesFrom(_, _, _, _, _)
VariablesFrom(scope, md, group_name, k, acc) ==
    LET items == Section(md, group_name) IN
    IF k > Len(items) \/ acc.err # "none" THEN acc
    ELSE LET var == items[k]
             name == var.name
             dtype == type_map(var.type)
             requirement == var.applicability
             available == name \in DOMAIN scope.variables
             ncvar == IF available THEN scope.variables[name] ELSE NoVar
             actual_dtype == ncvar.dtype
             \* ncvar.getValue() raises IndexError on a non-scalar variable
             index_error == available /\ ncvar.shape # "scalar"
             value1 == ncvar.value
             expected_value1 == AllowedValues(md, name)
             status == ItemStatus(available, requirement, actual_dtype = dtype, expected_value1, value1)
             row == Row(group_name, <<>>, name, available, var.type, actual_dtype,
                        expected_value1, value1, requirement, status, "item", k, -1)
         IN IF index_error THEN Raise(acc, "IndexError")
            ELSE VariablesFrom(scope, md, group_name, k + 1,
                     VariableAttrsFrom(md, group_name, name, var, available, ncvar, requirement, k, -1, TRUE,
                                       [k |-> 1, acc |-> Tally(acc, status, row)]))

check_variables(scope, md, group_name) == VariablesFrom(scope, md, group_name, 1, Acc0)

SweepPrefix == <<"s", "w", "e", "e", "p", "_">>

Placeholder == <<"<", "n", ">">>

\* "Handle sweep_<n> placeholder": the item name with the sweep index substituted
IndexedName(name, sweep_index) ==
    IF sweep_index # -1 /\ Contains(name, SweepPrefix \o Placeholder)
    THEN Replace(name, Placeholder, Str(sweep_index))
    ELSE name

\* name.split("/") with the leading sweep_ segment dropped inside a sweep group
PathParts(name, sweep_index) ==
    LET path_parts == Split(name, "/") IN
    IF sweep_index # -1 /\ StartsWith(path_parts[1], SweepPrefix) THEN Tail(path_parts) ELSE path_parts

RECURSIVE Descend(_, _, _)
\* the walk over path_parts[:-1]: the group reached, or found = FALSE (target_group = None)
Descend(group, parts, k) ==
    IF k >= Len(parts) THEN [found |-> TRUE, group |-> group]
    ELSE IF parts[k] \in DOMAIN group.groups THEN Descend(group.groups[parts[k]], parts, k + 1)
    ELSE [found |-> FALSE, group |-> group]

\* the key of the allowed_values lookup for an (already indexed) item name
AllowedKey(name, sweep_index) ==
    IF sweep_index # -1 /\ Contains(name, SweepPrefix \o Str(sweep_index))
    THEN Replace(name, Str(sweep_index), Placeholder)
    ELSE name

\* "Safe extraction of representative value": the scalar, the first element of an
\* array, or None when the extraction raised inside the try block
RepresentativeValue(ncvar) ==
    IF ncvar.shape = "scalar" THEN ncvar.value
    ELSE IF ncvar.value = "ERR" THEN None ELSE ncvar.value

RECURSIVE VariablesGroupFrom(_, _, _, _, _, _)
VariablesGroupFrom(nc_group, md, group_name, sweep_index, k, acc) ==
    LET items == Section(md, group_name) IN
    IF k > Len(items) \/ acc.err # "none" THEN acc
    ELSE LET var == items[k]
             name == IndexedName(var.name, sweep_index)
             path_parts == PathParts(name, sweep_index)
             target == Descend(nc_group, path_parts, 1)
             \* var_name = path_parts[-1] raises IndexError on an empty list
             index_error == path_parts = <<>>
             var_name == path_parts[Len(path_parts)]
             available == target.found /\ var_name \in DOMAIN target.group.variables
             ncvar == IF available THEN target.group.variables[var_name] ELSE NoVar
             dtype == type_map(var.type)
             requirement == var.applicability
             actual_dtype == ncvar.dtype
             value1 == IF available THEN RepresentativeValue(ncvar) ELSE None
             expected_value1 == AllowedValues(md, AllowedKey(name, sweep_index))
             status == ItemStatus(available, requirement, actual_dtype = dtype, expected_value1, value1)
             row == Row(group_name, <<>>, name, available, var.type, actual_dtype,
                        expected_value1, value1, requirement, status, "item", k, sweep_index)
         IN IF index_error THEN Raise(acc, "IndexError")
            ELSE VariablesGroupFrom(nc_group, md, group_name, sweep_index, k + 1,
                     VariableAttrsFrom(md, group_name, name, var, available, ncvar, requirement, k, sweep_index, FALSE,
                                       [k |-> 1, acc |-> Tally(acc, status, row)]))

check_variables_group(nc_group, md, group_name, sweep_index) ==
    VariablesGroupFrom(nc_group, md, group_name, sweep_index, 1, Acc0)

RECURSIVE DatasetAttrsFrom(_, _, _, _, _, _, _, _)
DatasetAttrsFrom(md, group_name, name, var, ncvar, item, sweep, st) ==
    LET k == st.k
        acc == st.acc
    IN
    IF k > Len(var.attributes) THEN acc
    ELSE LET attr == var.attributes[k]
             aname == attr.attribute_name
             adtype == type_map(attr.attribute_datatype)
             expected_value == AttrExpected(md, attr)
             rbs == attr.attribute_applicability
             a_available == aname \in DOMAIN ncvar.attrs
             aval == IF a_available THEN ncvar.attrs[aname].value ELSE None
             actual_dtype == IF a_available THEN ncvar.attrs[aname].type ELSE None
             astatus == DatasetAttrStatus(a_available, rbs, actual_dtype = adtype, expected_value, aval)
             row == Row(group_name, name, aname, a_available, attr.attribute_datatype, actual_dtype,
                        expected_value, aval, rbs, astatus, "attr", item, sweep)
         IN DatasetAttrsFrom(md, group_name, name, var, ncvar, item, sweep,
                             [k |-> k + 1, acc |-> Tally(acc, astatus, row)])

RECURSIVE DatasetGroupFrom(_, _, _, _, _, _)
DatasetGroupFrom(nc_group, md, group_name, sweep_index, k, acc) ==
    LET items == Section(md, group_name) IN
    IF k > Len(items) \/ acc.err # "none" THEN acc
    ELSE LET var == items[k]
             name == IndexedName(var.name, sweep_index)
             path_parts == PathParts(name, sweep_index)
             target == Descend(nc_group, path_parts, 1)
             index_error == path_parts = <<>>
             var_name == path_parts[Len(path_parts)]
             available == target.found /\ var_name \in DOMAIN target.group.variables
             ncvar == IF available THEN target.group.variables[var_name] ELSE NoVar
             requirement == "dataset"
             status == DatasetStatus(available)
             row == Row(group_name, <<>>, name, available, None, None,
                        NoValue, None, requirement, status, "item", k, sweep_index)
             \* results.append(row): the variable's own row enters no counter
             acc1 == [acc EXCEPT !.rows = Append(@, row)]
         IN IF index_error THEN Raise(acc, "IndexError")
            ELSE DatasetGroupFrom(nc_group, md, group_name, sweep_index, k + 1,
                     IF available
                     THEN DatasetAttrsFrom(md, group_name, name, var, ncvar, k, sweep_index, [k |-> 1, acc |-> acc1])
                     ELSE acc1)

check_dataset_group(nc_group, md, group_name, sweep_index) ==
    DatasetGroupFrom(nc_group, md, group_name, sweep_index, 1, Acc0)

(***************************************************************************)
(* Names used by the modelled schemas and files                            *)
(***************************************************************************)
\* "conventions"
n_conventions == <<"c", "o", "n", "v", "e", "n", "t", "i", "o", "n", "s">>

\* "title"
n_title == <<"t", "i", "t", "l", "e">>

\* "latitude"
n_latitude == <<"l", "a", "t", "i", "t", "u", "d", "e">>

\* "altitude"
n_altitude == <<"a", "l", "t", "i", "t", "u", "d", "e">>

\* "units"
n_units == <<"u", "n", "i", "t", "s">>

\* "standard_name"
n_standard_name == <<"s", "t", "a", "n", "d", "a", "r", "d", "_", "n", "a", "m", "e">>

\* "long_name"
n_long_name == <<"l", "o", "n", "g", "_", "n", "a", "m", "e">>

\* "sweep_<n>/fixed_angle"
n_fixed_angle == <<"s", "w", "e", "e", "p", "_", "<", "n", ">", "/", "f", "i", "x", "e", "d", "_", "a", "n", "g", "l", "e">>

\* "sweep_<n>/radar_parameters/beam_width_h"
n_beam_width == <<"s", "w", "e", "e", "p", "_", "<", "n", ">", "/", "r", "a", "d", "a", "r", "_", "p", "a", "r", "a", "m", "e", "t", "e", "r", "s", "/", "b", "e", "a", "m", "_", "w", "i", "d", "t", "h", "_", "h">>

\* "sweep_<n>/prt_1"
n_prt_1 == <<"s", "w", "e", "e", "p", "_", "<", "n", ">", "/", "p", "r", "t", "_", "1">>

\* "sweep_mode"
n_sweep_mode == <<"s", "w", "e", "e", "p", "_", "m", "o", "d", "e">>

\* "time"
n_time == <<"t", "i", "m", "e">>

\* "sweep_<n>/dbzh"
n_dbzh == <<"s", "w", "e", "e", "p", "_", "<", "n", ">", "/", "d", "b", "z", "h">>

\* "sweep_data"
n_sweep_data == <<"s", "w", "e", "e", "p", "_", "d", "a", "t", "a">>

\* "radar_parameters/antenna_gain_h"
n_rp_gain == <<"r", "a", "d", "a", "r", "_", "p", "a", "r", "a", "m", "e", "t", "e", "r", "s", "/", "a", "n", "t", "e", "n", "n", "a", "_", "g", "a", "i", "n", "_", "h">>

\* "radar_calibration/radar_constant_h"
n_rc_const == <<"r", "a", "d", "a", "r", "_", "c", "a", "l", "i", "b", "r", "a", "t", "i", "o", "n", "/", "r", "a", "d", "a", "r", "_", "c", "o", "n", "s", "t", "a", "n", "t", "_", "h">>

\* "radar_parameters"
g_radar_parameters == <<"r", "a", "d", "a", "r", "_", "p", "a", "r", "a", "m", "e", "t", "e", "r", "s">>

\* "radar_calibration"
g_radar_calibration == <<"r", "a", "d", "a", "r", "_", "c", "a", "l", "i", "b", "r", "a", "t", "i", "o", "n">>

\* "fixed_angle"
v_fixed_angle == <<"f", "i", "x", "e", "d", "_", "a", "n", "g", "l", "e">>

\* "beam_width_h"
v_beam_width == <<"b", "e", "a", "m", "_", "w", "i", "d", "t", "h", "_", "h">>

\* "prt_1"
v_prt_1 == <<"p", "r", "t", "_", "1">>

\* "dbzh"
v_dbzh == <<"d", "b", "z", "h">>

\* "antenna_gain_h"
v_gain == <<"a", "n", "t", "e", "n", "n", "a", "_", "g", "a", "i", "n", "_", "h">>

\* "radar_constant_h"
v_const == <<"r", "a", "d", "a", "r", "_", "c", "o", "n", "s", "t", "a", "n", "t", "_", "h">>

(***************************************************************************)
(* Modelled schemas (the JSON document load_json returns)                  *)
(***************************************************************************)
Item(name, type, applicability, attributes) ==
    [name |-> name, type |-> type, applicability |-> applicability, attributes |-> attributes]

Attribute(aname, datatype, value, applicability) ==
    [attribute_name |-> aname, attribute_datatype |-> datatype, attribute_value |-> value,
     attribute_applicability |-> applicability]

\* attribute_value "degrees_north": "degrees" is a substring of it, re.match accepts
\* any value that starts with it
DegreesNorth == [kind |-> "str", lits |-> {"degrees_north", "degrees"}, rx |-> {"degrees_north", "degrees_north_east"}]

\* attribute_value "degrees"
Degrees == [kind |-> "str", lits |-> {"degrees", "deg"}, rx |-> {"degrees", "degrees_north"}]

\* attribute_value "dBZ": "dB" is a substring of it
DBZ == [kind |-> "str", lits |-> {"dBZ", "dB"}, rx |-> {"dBZ"}]

GlobalAttributeItems ==
    << Item(n_conventions, "string", "Mandatory", <<>>),
       Item(n_title, "string", "Optional", <<>>) >>

AncillaryItems ==
    << Item(n_latitude, "double", "Mandatory",
            << Attribute(n_units, "string", DegreesNorth, "Optional") >>),
       Item(n_altitude, "float", "optional",
            << Attribute(n_standard_name, "string", NoPattern, "Mandatory") >>) >>

RadarParameterItems == << Item(n_rp_gain, "float", "Optional", <<>>) >>

RadarCalibrationItems ==
    << Item(n_rc_const, "float", "Mandatory", << Attribute(n_units, "string", DBZ, "Optional") >>) >>

\* the choices of the sweep_variables section
SweepItemChoices ==
    { << Item(n_fixed_angle, "float", "Mandatory",
              << Attribute(n_units, "string", Degrees, "Optional") >>),
         Item(n_beam_width, "float", "Optional",
              << Attribute(n_units, "string", Degrees, "Mandatory") >>) >>,
      << Item(n_prt_1, "int", "Optional", <<>>) >>,
      << Item(n_time, "double", "Mandatory", <<>>), Item(n_sweep_mode, "string", "Mandatory", <<>>) >>,
      <<>> }

DataItems ==
    << Item(n_dbzh, "float", "Mandatory",
            << Attribute(n_units, "string", DBZ, "Mandatory"),
               Attribute(n_long_name, "string", NoPattern, "Optional") >>) >>

\* the choices of the data_variables section
DataItemChoices == { DataItems, << Item(n_sweep_data, "float", "Optional", <<>>) >> }

AllowedValuesTable ==
    (n_conventions :> {"CF-1.7", "Cf/Radial-2.0"}) @@ (n_altitude :> {"0.0"})
    @@ (n_standard_name :> {"altitude"}) @@ (n_long_name :> {"reflectivity"})
    @@ (n_beam_width :> {"1.0"}) @@ (n_prt_1 :> {"1"})

\* a schema with or without the sweep_variables key
Schema(with_sweeps, sweep_items, data_items) ==
    [sections |->
        (IF with_sweeps THEN ("sweep_variables" :> sweep_items) ELSE <<>>)
        @@ ("Global_Attributes" :> GlobalAttributeItems)
        @@ ("Global_Ancillary_variables" :> AncillaryItems)
        @@ ("data_variables" :> data_items)
        @@ ("radar_parameters" :> RadarParameterItems)
        @@ ("radar_calibration" :> RadarCalibrationItems),
     allowed_values |-> AllowedValuesTable]

Schemas ==
    { Schema(TRUE, s, DataItems) : s \in SweepItemChoices }
    \cup { Schema(TRUE, <<>>, d) : d \in DataItemChoices }
    \cup { Schema(FALSE, <<>>, DataItems) }

(***************************************************************************)
(* Modelled data files (what netCDF4.Dataset exposes)                      *)
(***************************************************************************)
Att(type, value) == [type |-> type, value |-> value]

\* a variable: dtype, shape ("scalar" or "array"), its value (for an array the
\* first element, "ERR" when taking it raises) and its attributes
Var(dtype, shape, value, attrs) == [dtype |-> dtype, shape |-> shape, value |-> value, attrs |-> attrs]

Group(variables, groups) == [variables |-> variables, groups |-> groups]

Root(attrs, variables, groups) == [attrs |-> attrs, variables |-> variables, groups |-> groups]

\* the root content of the modelled files: global attributes, root variables and
\* the radar_parameters / radar_calibration groups
RootChoices ==
    { Root(<<>>, <<>>, <<>>),
      Root((n_conventions :> Att("str", "CF-1.7")) @@ (n_title :> Att("str", "scan")),
           (n_latitude :> Var("float64", "scalar", "45.0", (n_units :> Att("str", "degrees_north"))))
           @@ (n_altitude :> Var("float32", "scalar", "0.0", (n_standard_name :> Att("str", "altitude")))),
           (g_radar_parameters :> Group((v_gain :> Var("float32", "scalar", "40.0", <<>>)), <<>>))
           @@ (g_radar_calibration :> Group((v_const :> Var("float32", "array", "ERR", (n_units :> Att("str", "dBZ")))), <<>>))),
      Root((n_conventions :> Att("str", "COARDS")) @@ (n_title :> Att("float64", "1.5")),
           (n_latitude :> Var("float32", "scalar", "45.0", (n_units :> Att("str", "degrees"))))
           @@ (n_altitude :> Var("float32", "scalar", "7.5", (n_standard_name :> Att("int32", "1")))),
           (g_radar_parameters :> Group(<<>>, <<>>))),
      Root((n_conventions :> Att("int32", "1")),
           (n_latitude :> Var("float64", "array", "45.0", <<>>)),
           <<>>),
      Root((n_conventions :> Att("str", "CF-1.7")),
           (n_latitude :> Var("float64", "scalar", "45.0", (n_units :> Att("str", "degrees_north_east"))))
           @@ (n_altitude :> Var("float64", "scalar", "0.0", (n_standard_name :> Att("str", "height")))),
           <<>>),
      Root((n_conventions :> Att("str", "Cf/Radial-2.0")) @@ (n_title :> Att("str", "scan")),
           (n_altitude :> Var("float32", "scalar", "0.0", <<>>)),
           (g_radar_parameters :> Group((v_gain :> Var("float64", "scalar", "40.0", <<>>)), <<>>))
           @@ (g_radar_calibration :> Group((v_const :> Var("float32", "scalar", "70.0", (n_units :> Att("str", "dBm")))), <<>>))),
      Root((n_title :> Att("str", "scan")),
           (n_latitude :> Var("float64", "scalar", "45.0", <<>>)),
           <<>>) }

\* the content of one sweep group of the modelled files
SweepGroupChoices ==
    { Group(<<>>, <<>>),
      Group((v_fixed_angle :> Var("float32", "scalar", "0.5", (n_units :> Att("str", "degrees"))))
            @@ (v_prt_1 :> Var("int32", "scalar", "1", <<>>))
            @@ (n_time :> Var("float64", "array", "0.0", <<>>))
            @@ (v_dbzh :> Var("float32", "array", "9.5",
                              (n_units :> Att("str", "dBZ")) @@ (n_long_name :> Att("str", "reflectivity")))),
            (g_radar_parameters :> Group((v_beam_width :> Var("float32", "scalar", "1.0", (n_units :> Att("str", "degrees")))), <<>>))),
      Group((v_fixed_angle :> Var("float64", "array", "ERR", (n_units :> Att("int32", "1"))))
            @@ (v_prt_1 :> Var("int32", "array", "2", <<>>))
            @@ (v_dbzh :> Var("float32", "array", "9.5", (n_long_name :> Att("str", "dbz")))),
            (g_radar_parameters :> Group((v_beam_width :> Var("float32", "array", "2.0", <<>>)), <<>>))) }

\* the numeric suffixes a sweep group name may carry
SweepIds == {0, 1, 2, 10}

\* the name of sweep group k: "sweep_" + str(k)
SweepName(k) == SweepPrefix \o Str(k)

\* the files: a root content and at most MaxSweeps sweep groups
Files ==
    { [r EXCEPT !.groups = [g \in {SweepName(k) : k \in DOMAIN sw} |-> sw[CHOOSE k \in DOMAIN sw : SweepName(k) = g]] @@ r.groups] :
        r \in RootChoices,
        sw \in UNION { [ids -> SweepGroupChoices] : ids \in { x \in SUBSET SweepIds : Cardinality(x) <= MaxSweeps } } }

(***************************************************************************)
(* validate(json_file, nc_file, pdf_file, Sopt) and the __main__ handler   *)
(***************************************************************************)
Init ==
    /\ metadata \in Schemas
    /\ nc \in Files
    /\ Sopt \in {"f", "o"}
    /\ pc = "start"
    /\ results = <<>>
    /\ results_data = <<>>
    /\ section_summaries = <<>>
    /\ sweep_i = 0
    /\ close_count = 0
    /\ err = "none"
    /\ calls = <<>>

Summary(r) == <<r.pass_count, r.fail_mandatory_count, r.not_used_count>>

\* one entry of the call history: the check that ran, the section it wrote, the
\* name of the group it scanned (<<>> for the root), its sweep_index, the number
\* of rows it appended and the exception it ended with
Call(fn, section, group, sweep_index, r) ==
    [fn |-> fn, section |-> section, group |-> group, sweep_index |-> sweep_index,
     rows |-> Len(r.rows), err |-> r.err]

\* StoreSummary keeping the summary already stored under the section name
StoreSummary_FirstWriteWins(summaries, section, r) == summaries @@ (section :> Summary(r))

\* section_summaries[group_name] = (pass_count, fail_mandatory_count, not_used_count)
StoreSummary(summaries, section, r) == (section :> Summary(r)) @@ summaries

\* the effect of one check call on the main result list
Checked(fn, section, group, sweep_index, r, next) ==
    /\ results' = results \o r.rows
    /\ calls' = Append(calls, Call(fn, section, group, sweep_index, r))
    /\ IF r.err = "none"
       THEN /\ section_summaries' = StoreSummary(section_summaries, section, r)
            /\ pc' = next
            /\ err' = err
       ELSE /\ section_summaries' = section_summaries
            /\ pc' = "raised"
            /\ err' = r.err

\* metadata = load_json(json_file); nc = Dataset(nc_file, 'r')
Open ==
    /\ pc = "start"
    /\ pc' = "global_attributes"
    /\ UNCHANGED <<metadata, nc, Sopt, results, results_data, section_summaries, sweep_i, close_count, err, calls>>

CheckGlobalAttributes ==
    /\ pc = "global_attributes"
    /\ Checked("check_global_attributes", "Global_Attributes", <<>>, -1,
               check_global_attributes(nc, metadata), "ancillary")
    /\ UNCHANGED <<metadata, nc, Sopt, results_data, sweep_i, close_count>>

CheckAncillaryVariables ==
    /\ pc = "ancillary"
    /\ Checked("check_variables", "Global_Ancillary_variables", <<>>, -1,
               check_variables(nc, metadata, "Global_Ancillary_variables"), "sweep_variables")
    /\ UNCHANGED <<metadata, nc, Sopt, results_data, sweep_i, close_count>>

\* sorted(g for g in nc.groups.keys() if g.startswith("sweep_"))
SweepGroups(file) == Sorted({g \in DOMAIN file.groups : StartsWith(g, SweepPrefix)})

\* SweepPlan with mode "o" visiting every sweep group as mode "f" does
SweepPlan_EveryGroup == SweepGroups(nc)

\* the sweep groups validate visits, in order: all of them in mode "f", sweep_0 in mode "o"
SweepPlan == IF Sopt = "f" THEN SweepGroups(nc) ELSE <<SweepName(0)>>

\* the sweep checks are skipped, or the loop over the sweep groups has ended
SweepsDone ==
    /\ pc = "sweep_variables"
    /\ "sweep_variables" \notin DOMAIN metadata.sections \/ sweep_i >= Len(SweepPlan)
    /\ pc' = "radar_parameters"
    /\ UNCHANGED <<metadata, nc, Sopt, results, results_data, section_summaries, sweep_i, close_count, err, calls>>

\* mode "o": nc.groups["sweep_0"] raises KeyError when the file has no such group
SweepZeroMissing ==
    /\ pc = "sweep_variables"
    /\ "sweep_variables" \in DOMAIN metadata.sections
    /\ sweep_i < Len(SweepPlan)
    /\ SweepPlan[sweep_i + 1] \notin DOMAIN nc.groups
    /\ pc' = "raised"
    /\ err' = "KeyError"
    /\ UNCHANGED <<metadata, nc, Sopt, results, results_data, section_summaries, sweep_i, close_count, calls>>

CheckSweepVariables ==
    /\ pc = "sweep_variables"
    /\ "sweep_variables" \in DOMAIN metadata.sections
    /\ sweep_i < Len(SweepPlan)
    /\ SweepPlan[sweep_i + 1] \in DOMAIN nc.groups
    /\ LET gname == SweepPlan[sweep_i + 1] IN
       Checked("check_variables_group", "sweep_variables", gname, sweep_i,
               check_variables_group(nc.groups[gname], metadata, "sweep_variables", sweep_i), "data_variables")
    /\ UNCHANGED <<metadata, nc, Sopt, results_data, sweep_i, close_count>>

\* CheckDataVariables handing the main result list to check_dataset_group
CheckDataVariables_ToMainList ==
    /\ pc = "data_variables"
    /\ LET gname == SweepPlan[sweep_i + 1]
           r == check_dataset_group(nc.groups[gname], metadata, "data_variables", sweep_i)
       IN /\ results' = results \o r.rows
          /\ calls' = Append(calls, Call("check_dataset_group", "data_variables", gname, sweep_i, r))
          /\ IF r.err = "none"
             THEN /\ section_summaries' = StoreSummary(section_summaries, "data_variables", r)
                  /\ pc' = "sweep_variables"
                  /\ sweep_i' = sweep_i + 1
                  /\ err' = err
             ELSE /\ section_summaries' = section_summaries
                  /\ pc' = "raised"
                  /\ sweep_i' = sweep_i
                  /\ err' = r.err
    /\ UNCHANGED <<metadata, nc, Sopt, results_data, close_count>>

CheckDataVariables ==
    /\ pc = "data_variables"
    /\ LET gname == SweepPlan[sweep_i + 1]
           r == check_dataset_group(nc.groups[gname], metadata, "data_variables", sweep_i)
       IN /\ results_data' = results_data \o r.rows
          /\ calls' = Append(calls, Call("check_dataset_group", "data_variables", gname, sweep_i, r))
          /\ IF r.err = "none"
             THEN /\ section_summaries' = StoreSummary(section_summaries, "data_variables", r)
                  /\ pc' = "sweep_variables"
                  /\ sweep_i' = sweep_i + 1
                  /\ err' = err
             ELSE /\ section_summaries' = section_summaries
                  /\ pc' = "raised"
                  /\ sweep_i' = sweep_i
                  /\ err' = r.err
    /\ UNCHANGED <<metadata, nc, Sopt, results, close_count>>

CheckRadarParameters ==
    /\ pc = "radar_parameters"
    /\ IF "radar_parameters" \in DOMAIN metadata.sections
       THEN Checked("check_variables_group", "radar_parameters", <<>>, -1,
                    check_variables_group(nc, metadata, "radar_parameters", -1), "radar_calibration")
       ELSE pc' = "radar_calibration" /\ UNCHANGED <<results, section_summaries, err, calls>>
    /\ UNCHANGED <<metadata, nc, Sopt, results_data, sweep_i, close_count>>

CheckRadarCalibration ==
    /\ pc = "radar_calibration"
    /\ IF "radar_calibration" \in DOMAIN metadata.sections
       THEN Checked("check_variables_group", "radar_calibration", <<>>, -1,
                    check_variables_group(nc, metadata, "radar_calibration", -1), "close")
       ELSE pc' = "close" /\ UNCHANGED <<results, section_summaries, err, calls>>
    /\ UNCHANGED <<metadata, nc, Sopt, results_data, sweep_i, close_count>>

\* nc.close()
Close ==
    /\ pc = "close"
    /\ close_count' = close_count + 1
    /\ pc' = "report"
    /\ UNCHANGED <<metadata, nc, Sopt, results, results_data, section_summaries, sweep_i, err, calls>>

\* json.dump(results), generate_pdf_used(...), then validate returns
Report ==
    /\ pc = "report"
    /\ pc' = "done"
    /\ UNCHANGED <<metadata, nc, Sopt, results, results_data, section_summaries, sweep_i, close_count, err, calls>>

\* an exception left validate: __main__ prints the "Invalid input file" message
HandleException ==
    /\ pc = "raised"
    /\ pc' = "failed"
    /\ UNCHANGED <<metadata, nc, Sopt, results, results_data, section_summaries, sweep_i, close_count, err, calls>>

Next ==
    \/ Open
    \/ CheckGlobalAttributes
    \/ CheckAncillaryVariables
    \/ SweepsDone
    \/ SweepZeroMissing
    \/ CheckSweepVariables
    \/ CheckDataVariables
    \/ CheckRadarParameters
    \/ CheckRadarCalibration
    \/ Close
    \/ Report
    \/ HandleException

Spec == Init /\ [][Next]_vars

(***************************************************************************)
(* Properties                                                              *)
(***************************************************************************)
Rows(seq) == {seq[k] : k \in DOMAIN seq}

\* the schema item a row was produced for
ItemOf(r) == Section(metadata, r.group)[r.item]

\* the declared sub-attribute a sub-attribute row was produced for
AttributeOf(r) ==
    LET as == ItemOf(r).attributes
    IN as[CHOOSE k \in DOMAIN as : as[k].attribute_name = r.name]

IsMandatory(a) == a \in {"Mandatory", "mandatory", "MANDATORY"}

ItemRows(seq) == {r \in Rows(seq) : r.kind = "item"}

AttrRows(seq) == {r \in Rows(seq) : r.kind = "attr"}

\* the decision table of the classification policy, read off the row's own columns
DecisionTable(r) ==
    LET mandatory == IsMandatory(r.requirement)
        type_match == r.actual_dtype = type_map(r.expected_dtype)
        constrained == r.expected_value.some /\ r.expected_value.vals # {}
        value_match == r.actual_value \in r.expected_value.vals
    IN CASE ~r.available /\ mandatory -> "fail_mandatory"
         [] ~r.available /\ ~mandatory -> "not_used"
         [] r.available /\ ~type_match /\ mandatory -> "fail_mandatory"
         [] r.available /\ ~type_match /\ ~mandatory -> "fail_optional"
         [] r.available /\ type_match /\ constrained /\ ~value_match /\ mandatory -> "fail_mandatory"
         [] r.available /\ type_match /\ constrained /\ ~value_match /\ ~mandatory -> "fail_optional"
         [] OTHER -> "pass"

\* C1: every item-level row of check_global_attributes, check_variables and
\* check_variables_group carries the outcome the decision table gives for its
\* availability, applicability, type match and value match.
C1_DecisionTable == \A r \in ItemRows(results) : r.status = DecisionTable(r)

\* C1 witness: a finished run whose item rows show all four outcomes and come
\* from the global-attribute, flat-variable and sweep-group checks.
C1_Witness ==
    /\ pc = "done"
    /\ \A st \in {"pass", "fail_mandatory", "fail_optional", "not_used"} :
          \E r \in ItemRows(results) : r.status = st
    /\ \A g \in {"Global_Attributes", "Global_Ancillary_variables", "sweep_variables"} :
          \E r \in ItemRows(results) : r.group = g

\* C2 (as claimed): in all four strategies a mandatory schema item with no
\* matching data gets a fail_mandatory row.
C2_Original ==
    \A r \in ItemRows(results) \cup ItemRows(results_data) :
        (IsMandatory(ItemOf(r).applicability) /\ ~r.available) => r.status = "fail_mandatory"

\* C2 (amended): in the global-attribute, flat-variable and path-resolving
\* strategies a mandatory schema item with no matching data gets a
\* fail_mandatory row; in the dataset-existence strategy an item with no matching
\* data gets a not_used row whatever its applicability.
C2_MandatoryMissing ==
    /\ \A r \in ItemRows(results) :
          (IsMandatory(ItemOf(r).applicability) /\ ~r.available) => r.status = "fail_mandatory"
    /\ \A r \in ItemRows(results_data) : ~r.available => r.status = "not_used"

\* C2 witness: mandatory items are missing in every strategy of one run.
C2_Witness ==
    /\ \A g \in {"Global_Attributes", "Global_Ancillary_variables", "sweep_variables"} :
          \E r \in ItemRows(results) :
              r.group = g /\ IsMandatory(ItemOf(r).applicability) /\ ~r.available
    /\ \E r \in ItemRows(results_data) : IsMandatory(ItemOf(r).applicability) /\ ~r.available

\* C3: in check_variables and check_variables_group the row of a missing
\* sub-attribute follows the sub-attribute's own applicability: fail_mandatory
\* when it is mandatory, not_used when it is optional.
C3_OwnApplicability ==
    \A r \in AttrRows(results) :
        ~r.available =>
            r.status = (IF IsMandatory(AttributeOf(r).attribute_applicability)
                        THEN "fail_mandatory" ELSE "not_used")

\* the rows the latest check call appended to its result list
LastAppended ==
    LET c == calls[Len(calls)]
        list == IF c.fn = "check_dataset_group" THEN results_data ELSE results
    IN SubSeq(list, Len(list) - c.rows + 1, Len(list))

SummarySum(t) == t[1] + t[2] + t[3]

\* C4 (as claimed): the summary a check call stores adds up to the number of
\* rows that call appended.
C4_Original ==
    (calls # <<>> /\ calls[Len(calls)].err = "none") =>
        SummarySum(section_summaries[calls[Len(calls)].section]) = calls[Len(calls)].rows

\* C4 (amended): the summary a check call stores adds up to the number of rows
\* that call appended whose outcome is not not_used, where for
\* check_dataset_group only the sub-attribute rows count (the variable's own row
\* enters no counter).
C4_SumOfTalliedRows ==
    (calls # <<>> /\ calls[Len(calls)].err = "none") =>
        LET c == calls[Len(calls)]
            app == LastAppended
            tallied == {k \in DOMAIN app :
                          /\ app[k].status # "not_used"
                          /\ c.fn = "check_dataset_group" => app[k].kind = "attr"}
        IN SummarySum(section_summaries[c.section]) = Cardinality(tallied)

\* C4 witness: a check call has returned after appending pass, fail and
\* not_used rows, sub-attribute rows among them.
C4_Witness ==
    /\ calls # <<>>
    /\ calls[Len(calls)].err = "none"
    /\ \E r \in Rows(LastAppended) : r.status = "not_used"
    /\ \E r \in Rows(LastAppended) : r.status = "pass"
    /\ \E r \in Rows(LastAppended) : r.kind = "attr"
    /\ \E r \in Rows(LastAppended) : r.status \in {"fail_mandatory", "fail_optional"}

\* C5 (as claimed): the row check_dataset_group emits for the data variable
\* itself always has outcome not_used.
C5_Original == \A r \in ItemRows(results_data) : r.status = "not_used"

\* C5 (amended): the row check_dataset_group emits for the data variable itself
\* has outcome pass when the variable is present in the file and not_used when
\* it is absent; it never has outcome fail_mandatory or fail_optional.
C5_DatasetRow ==
    \A r \in ItemRows(results_data) : r.status = (IF r.available THEN "pass" ELSE "not_used")

\* C5 witness: the dataset check has emitted a row for a present and for an
\* absent data variable.
C5_Witness ==
    /\ \E r \in ItemRows(results_data) : r.available
    /\ \E r \in ItemRows(results_data) : ~r.available

\* C6: for an item whose schema name contains sweep_<n>, the allowed values
\* check_variables_group reports are those stored under the schema name itself,
\* whatever the sweep index.
C6_PlaceholderRoundTrip ==
    \A r \in ItemRows(results) :
        (r.sweep # -1 /\ Contains(ItemOf(r).name, SweepPrefix \o Placeholder)) =>
            r.expected_value = AllowedValues(metadata, ItemOf(r).name)

\* the number of sweep groups in the file
NumSweeps == Len(SweepGroups(nc))

RECURSIVE RowsPerCallFrom(_, _)
RowsPerCallFrom(items, k) ==
    IF k > Len(items) THEN 0 ELSE 1 + Len(items[k].attributes) + RowsPerCallFrom(items, k + 1)

\* rows one check_variables_group call emits for a section: one per item and one
\* per declared sub-attribute
RowsPerCall(section) == RowsPerCallFrom(Section(metadata, section), 1)

SweepRows == {k \in DOMAIN results : results[k].group = "sweep_variables"}

SweepCalls == {k \in DOMAIN calls : calls[k].section \in {"sweep_variables", "data_variables"}}

\* C7: a finished run in mode "o" has run the sweep checks on sweep_0 with index
\* 0 only and holds one call's worth of sweep_variables rows; a finished run in
\* mode "f" over N sweep groups has run them once per group and holds N times as
\* many sweep_variables rows.
C7_SweepModes ==
    pc = "done" =>
        /\ Sopt = "o" =>
              /\ \A k \in SweepCalls : calls[k].group = SweepName(0) /\ calls[k].sweep_index = 0
              /\ Cardinality(SweepRows) = RowsPerCall("sweep_variables")
        /\ Sopt = "f" =>
              /\ \A g \in Rows(SweepGroups(nc)) :
                    "sweep_variables" \in DOMAIN metadata.sections =>
                        Cardinality({k \in SweepCalls : calls[k].group = g /\ calls[k].fn = "check_variables_group"}) = 1
              /\ Cardinality(SweepRows) = NumSweeps * RowsPerCall("sweep_variables")

\* C7 witness: a finished mode "f" run over two sweep groups with a non-empty
\* sweep_variables section.
C7_Witness ==
    /\ pc = "done"
    /\ Sopt = "f"
    /\ NumSweeps = 2
    /\ SweepName(0) \in DOMAIN nc.groups
    /\ RowsPerCall("sweep_variables") > 1
    /\ Cardinality(SweepRows) > 0

\* C8: once validate has been left, normally or by an exception, the data source
\* has been closed exactly once.
C8_ClosedOnEveryExit == pc \in {"done", "failed"} => close_count = 1

\* C9: no call of check_variables, check_variables_group or check_dataset_group
\* is ended by a value-extraction or path-resolution failure.
C9_NoAbort ==
    \A k \in DOMAIN calls :
        calls[k].fn \in {"check_variables", "check_variables_group", "check_dataset_group"}
            => calls[k].err # "IndexError"

\* tallies of a set of rows: pass, fail_mandatory, fail_optional
TalliesOf(S) ==
    << Cardinality({r \in S : r.status = "pass"}),
       Cardinality({r \in S : r.status = "fail_mandatory"}),
       Cardinality({r \in S : r.status = "fail_optional"}) >>

\* positions of the rows a list holds for sweep index i
RowsOfSweep(seq, group, i) == {k \in DOMAIN seq : seq[k].group = group /\ seq[k].sweep = i}

\* C10: after a mode "f" run over N >= 1 sweep groups the sweep_variables and
\* data_variables summaries are the tallies of the last group's rows alone, while
\* the result lists hold the rows of every group.
C10_LastWriteWins ==
    (pc = "done" /\ Sopt = "f" /\ NumSweeps >= 1 /\ "sweep_variables" \in DOMAIN metadata.sections) =>
        /\ section_summaries["sweep_variables"]
              = TalliesOf({[pos |-> k, status |-> results[k].status] :
                              k \in RowsOfSweep(results, "sweep_variables", NumSweeps - 1)})
        /\ section_summaries["data_variables"]
              = TalliesOf({[pos |-> k, status |-> results_data[k].status] :
                              k \in {j \in RowsOfSweep(results_data, "data_variables", NumSweeps - 1) :
                                        results_data[j].kind = "attr"}})
        /\ \A i \in 0..(NumSweeps - 1) :
              /\ Cardinality(RowsOfSweep(results, "sweep_variables", i)) = RowsPerCall("sweep_variables")
              /\ Cardinality(RowsOfSweep(results_data, "data_variables", i)) >= Len(Section(metadata, "data_variables"))

\* C10 witness: a finished mode "f" run over two sweep groups whose rows for the
\* first group tally differently from the stored summary.
C10_Witness ==
    /\ pc = "done"
    /\ Sopt = "f"
    /\ NumSweeps = 2
    /\ "sweep_variables" \in DOMAIN section_summaries
    /\ section_summaries["sweep_variables"]
          # TalliesOf({[pos |-> k, status |-> results[k].status] :
                          k \in RowsOfSweep(results, "sweep_variables", 0)})
    /\ SummarySum(section_summaries["sweep_variables"]) > 0

\* the latest check call is a check_dataset_group call that returned
DatasetCallReturned ==
    /\ calls # <<>>
    /\ calls[Len(calls)].fn = "check_dataset_group"
    /\ calls[Len(calls)].err = "none"

\* C11: a check_dataset_group call that returns has appended exactly one row for
\* each schema item itself and, for each item, one row per declared
\* sub-attribute when the variable was found and none when it was absent; its
\* rows go to the dataset list only, never to the main result list.
C11_DatasetRows ==
    /\ \A r \in Rows(results) : r.group # "data_variables"
    /\ \A r \in Rows(results_data) : r.group = "data_variables"
    /\ DatasetCallReturned =>
          LET app == LastAppended
              items == Section(metadata, "data_variables")
          IN \A i \in DOMAIN items :
                /\ Cardinality({k \in DOMAIN app : app[k].kind = "item" /\ app[k].item = i}) = 1
                /\ \A k \in DOMAIN app :
                      (app[k].kind = "item" /\ app[k].item = i) =>
                          Cardinality({j \in DOMAIN app : app[j].kind = "attr" /\ app[j].item = i})
                              = (IF app[k].available THEN Len(items[i].attributes) ELSE 0)

\* C11 witness: the dataset list holds a found data variable followed by its
\* sub-attribute rows and an absent data variable without any.
C11_Witness ==
    /\ DatasetCallReturned
    /\ \E r \in ItemRows(results_data) :
          /\ r.available
          /\ \E a \in AttrRows(results_data) : a.item = r.item /\ a.sweep = r.sweep
    /\ \E r \in ItemRows(results_data) :
          /\ ~r.available
          /\ ItemOf(r).attributes # <<>>
          /\ ~\E a \in AttrRows(results_data) : a.item = r.item /\ a.sweep = r.sweep

\* C12: the not_used_count a check_dataset_group call stores equals the number
\* of sub-attributes it found present but failing their type or value check
\* under an optional attribute_applicability.
C12_OptionalFailuresCounted ==
    DatasetCallReturned =>
        LET app == LastAppended
        IN section_summaries["data_variables"][3]
              = Cardinality({k \in DOMAIN app :
                                /\ app[k].kind = "attr"
                                /\ app[k].available
                                /\ ~IsMandatory(app[k].requirement)
                                /\ app[k].status # "pass"})

\* C13: in check_variables the sub-attribute rows of a variable that is not in
\* the file are all reported as not available, with outcome fail_mandatory when
\* the parent variable is mandatory and not_used otherwise.
C13_AbsentVariableAttributes ==
    \A r \in AttrRows(results) :
        (r.group = "Global_Ancillary_variables" /\ r.parent \notin DOMAIN nc.variables) =>
            /\ ~r.available
            /\ r.actual_value = None
            /\ r.status = (IF IsMandatory(ItemOf(r).applicability) THEN "fail_mandatory" ELSE "not_used")

\* C13 witness: check_variables has reported the sub-attributes of an absent
\* mandatory variable and of an absent optional variable.
C13_Witness ==
    /\ \E r \in AttrRows(results) :
          /\ r.group = "Global_Ancillary_variables"
          /\ r.parent \notin DOMAIN nc.variables
          /\ IsMandatory(ItemOf(r).applicability)
          /\ ~IsMandatory(AttributeOf(r).attribute_applicability)
    /\ \E r \in AttrRows(results) :
          /\ r.group = "Global_Ancillary_variables"
          /\ r.parent \notin DOMAIN nc.variables
          /\ ~IsMandatory(ItemOf(r).applicability)
          /\ IsMandatory(AttributeOf(r).attribute_applicability)

\* the calls made with a sweep index
IndexedCalls == {k \in DOMAIN calls : calls[k].sweep_index # -1}

\* C14: every check_variables_group and check_dataset_group call made with a
\* sweep index returns without an exception and has appended a variable row for
\* each schema item of its section, single-segment sweep_ names included.
C14_SingleSegmentNames ==
    \A k \in IndexedCalls :
        /\ calls[k].err = "none"
        /\ calls[k].rows >= Len(Section(metadata, calls[k].section))

\* C15: in mode "f" every sweep group is checked with the sweep index equal to
\* the numeric suffix of its name.
C15_IndexIsSuffix ==
    Sopt = "f" => \A k \in IndexedCalls : calls[k].group = SweepName(calls[k].sweep_index)

====
